---------------------------- MODULE Spec2Model ----------------------------
(***************************************************************************)
(* Prayer Warrior API server (src/server.js): the prayer-participation    *)
(* state machine.  The state is the PostgreSQL store (prayer_requests and *)
(* device_prayers), the clock NOW(), the HTTP handlers that are suspended  *)
(* at an `await pool.query(...)`, and the HTTP response a step sends.      *)
(* Every `await pool.query` is one step: handlers of concurrent requests   *)
(* interleave between their statements, and a single SQL statement is      *)
(* atomic.                                                                 *)
(***************************************************************************)
EXTENDS Integers, FiniteSets, Sequences, Bags, TLC

VARIABLES
    now,              \* NOW(), in hours
    prayer_requests,  \* table prayer_requests: id -> row
    next_request_id,  \* prayer_requests_id_seq (SERIAL)
    device_prayers,   \* table device_prayers: a bag of rows
    inflight,         \* handler slot -> the suspended join/complete handler
    resp,             \* the HTTP response the last step sent, if any
    joinIncs,         \* history: device -> request id -> prayer_count
                      \* increments executed by join handlers
    praying,          \* history: request id -> the devices whose latest
                      \* start-praying is not yet followed by their
                      \* stop-praying or complete (kept only when .on)
    prayer_topics,    \* table prayer_topics: a set of rows
    devices,          \* table devices: device_id -> push_token
    firebaseAdmin,    \* the Firebase Admin app, or null (FALSE)
    sent              \* the sendPushNotification calls the last step made

\* the topic catalog and the notification dispatcher
collaborators == <<prayer_topics, devices, firebaseAdmin, sent>>

vars == <<now, prayer_requests, next_request_id, device_prayers, inflight,
          resp, joinIncs, praying, collaborators>>

--------------------------------------------------------------------------
(* Bounds of the model *)

MaxRequests == 1     \* prayer requests ever submitted (one more in SpecFrame)
MaxHandlers == 2     \* join/complete handlers suspended at the same time
MaxTicks == 1        \* clock advances
MaxCount == 2        \* legacy pray / start-praying stop raising a counter here
MaxTopics == 3       \* rows of prayer_topics in the catalog specification

(* Program constants *)

TTL == 24            \* NOW() + INTERVAL '24 hours'
NULL == -1           \* SQL NULL in a TIMESTAMP column

TickStep == TTL      \* hours the clock advances at a time

Devices == {"A", "B"}
NoDevice == ""                      \* device_id missing from the body
RequestIds == 1 .. MaxRequests      \* :id path parameters callers send
FrameIds == 1 .. (MaxRequests + 1)  \* the same, with one more request
Handlers == 1 .. MaxHandlers
TopicIds == (1 .. 20)               \* prayer_topics seeded by init-database
NoTopic == 0                        \* topic_id missing from the body
BadTopic == 99                      \* a topic_id that is no prayer_topics row

--------------------------------------------------------------------------
(* Rows, responses and handler slots *)

NoRow == [id |-> 0]      \* result.rows[0] of an empty result: undefined

Idle == [op |-> "idle", pc |-> "-", id |-> 0, device_id |-> NoDevice]

Suspended(op, pc, id, d) == [op |-> op, pc |-> pc, id |-> id, device_id |-> d]

\* The step sent no response (the handler is suspended, or time passed).
NoResponse == [op |-> "none", id |-> 0, device_id |-> NoDevice, status |-> 0,
               cause |-> "-", body |-> NoRow, rows |-> {}, did |-> {}]

\* res.status(status).json(body).  cause names the branch that answered and
\* did the store changes the handler made (history, not sent to the client).
Response(op, id, d, status, cause, body, did) ==
    [op |-> op, id |-> id, device_id |-> d, status |-> status,
     cause |-> cause, body |-> body, rows |-> {}, did |-> did]

\* res.json(result.rows) of a query that returns a list of rows
ListResponse(op, rows) ==
    [op |-> op, id |-> 0, device_id |-> NoDevice, status |-> 200,
     cause |-> "ok", body |-> NoRow, rows |-> rows, did |-> {}]

\* Faulty variant: the decrement without its floor at zero.
GREATEST_NoFloor(a, b) == a

GREATEST(a, b) == IF a >= b THEN a ELSE b

--------------------------------------------------------------------------
(* SQL statements *)

\* Faulty variant: the existence check without `AND expires_at > NOW()`.
ActiveRequest_AnyAge(id) == id \in DOMAIN prayer_requests

\* WHERE id = $1 AND expires_at > NOW()
ActiveRequest(id) ==
    id \in DOMAIN prayer_requests /\ prayer_requests[id].expires_at > now

\* SELECT * FROM prayer_requests WHERE id = $1 : rows[0]
SelectRequest(id) ==
    IF id \in DOMAIN prayer_requests THEN prayer_requests[id] ELSE NoRow

\* SELECT * FROM device_prayers WHERE device_id = $1 AND prayer_request_id = $2
SelectDevicePrayers(d, id) ==
    {row \in BagToSet(device_prayers) :
        row.device_id = d /\ row.prayer_request_id = id}

RECURSIVE SumCopies(_, _)
SumCopies(B, S) ==
    IF S = {} THEN 0
    ELSE LET x == CHOOSE y \in S : TRUE
         IN  CopiesIn(x, B) + SumCopies(B, S \ {x})

\* SELECT COUNT(*) FROM device_prayers WHERE prayer_request_id = $1
CountDevicePrayers(id) ==
    SumCopies(device_prayers,
              {row \in BagToSet(device_prayers) : row.prayer_request_id = id})

\* Faulty variant: device_prayers created without its UNIQUE constraint.
UniqueViolation_Unenforced(d, id) == FALSE

\* Faulty variant: the constraint as a partial index over the open links
\* (... WHERE completed_at IS NULL).
UniqueViolation_OpenOnly(d, id) ==
    \E row \in SelectDevicePrayers(d, id) : row.completed_at = NULL

\* UNIQUE(device_id, prayer_request_id) on device_prayers
UniqueViolation(d, id) == SelectDevicePrayers(d, id) # {}

\* Faulty variant: prayer_request_id without REFERENCES prayer_requests(id).
ForeignKeyViolation_Unenforced(id) == FALSE

\* prayer_request_id INTEGER NOT NULL REFERENCES prayer_requests(id)
ForeignKeyViolation(id) == id \notin DOMAIN prayer_requests

\* INSERT INTO device_prayers (device_id, prayer_request_id) VALUES ($1, $2)
InsertDevicePrayer(d, id) ==
    device_prayers (+)
        SetToBag({[device_id |-> d, prayer_request_id |-> id,
                   completed_at |-> NULL]})

\* Faulty variant: the application computes the new count from what it
\* reads (the number of links) and writes it back.
IncrementPrayerCount_WriteBack(id) ==
    [prayer_requests EXCEPT ![id].prayer_count = CountDevicePrayers(id)]

\* UPDATE prayer_requests SET prayer_count = prayer_count + 1 WHERE id = $1
IncrementPrayerCount(id) ==
    [prayer_requests EXCEPT ![id].prayer_count = @ + 1]

\* Faulty variant: start-praying counted as a prayer, as the legacy pray is.
IncrementActivePrayers_AlsoCount(id) ==
    [prayer_requests EXCEPT ![id].active_prayers = @ + 1,
                            ![id].prayer_count = @ + 1]

\* UPDATE prayer_requests SET active_prayers = active_prayers + 1 ...
IncrementActivePrayers(id) ==
    [prayer_requests EXCEPT ![id].active_prayers = @ + 1]

\* Faulty variant: completing also takes the device out of prayer_count.
DecrementActivePrayers_AlsoCount(id) ==
    [prayer_requests EXCEPT ![id].active_prayers = GREATEST(@ - 1, 0),
                            ![id].prayer_count = GREATEST(@ - 1, 0)]

\* Faulty variant: the decrement clears the gauge.
DecrementActivePrayers_Clear(id) ==
    [prayer_requests EXCEPT ![id].active_prayers = 0]

\* UPDATE prayer_requests SET active_prayers = GREATEST(active_prayers - 1, 0)
DecrementActivePrayers(id) ==
    [prayer_requests EXCEPT ![id].active_prayers = GREATEST(@ - 1, 0)]

\* which arm of GREATEST(active_prayers - 1, 0) applied
DecrementKind(id) ==
    IF prayer_requests[id].active_prayers >= 1 THEN "decrement" ELSE "floor"

\* Faulty variant: the UPDATE without `AND completed_at IS NULL`.
OpenDevicePrayers_AnyState(d, id) == SelectDevicePrayers(d, id)

\* Faulty variant: the UPDATE without `device_id = $1`.
OpenDevicePrayers_AnyDevice(d, id) ==
    {row \in BagToSet(device_prayers) :
        row.prayer_request_id = id /\ row.completed_at = NULL}

\* UPDATE device_prayers SET completed_at = NOW() WHERE device_id = $1
\*   AND prayer_request_id = $2 AND completed_at IS NULL RETURNING *
OpenDevicePrayers(d, id) ==
    {row \in SelectDevicePrayers(d, id) : row.completed_at = NULL}

\* Faulty variant: completing removes the link (a "leave").
MarkCompleted_Leave(d, id) ==
    LET kept == {row \in BagToSet(device_prayers) :
                    row \notin OpenDevicePrayers(d, id)}
    IN  [row \in kept |-> CopiesIn(row, device_prayers)]

\* Faulty variant: the first statement only reads the open link (a SELECT),
\* and completed_at is not set by it.
MarkCompleted_Deferred(d, id) == device_prayers

MarkCompleted(d, id) ==
    LET rows == BagToSet(device_prayers)
        set(row) == IF row \in OpenDevicePrayers(d, id)
                    THEN [row EXCEPT !.completed_at = now]
                    ELSE row
    IN  [updated \in {set(row) : row \in rows} |->
            SumCopies(device_prayers, {row \in rows : set(row) = updated})]

\* Faulty variant: the sweep spares the requests that expire this instant.
ExpiredIds_Strict ==
    {id \in DOMAIN prayer_requests : prayer_requests[id].expires_at < now}

\* DELETE FROM prayer_requests WHERE expires_at <= NOW()
ExpiredIds == {id \in DOMAIN prayer_requests : prayer_requests[id].expires_at <= now}

\* ... REFERENCES prayer_requests(id) ON DELETE CASCADE
CascadeDelete(ids) ==
    LET kept == {row \in BagToSet(device_prayers) :
                    row.prayer_request_id \notin ids}
    IN  [row \in kept |-> CopiesIn(row, device_prayers)]

\* INSERT INTO prayer_topics (id, title, category, parent_id) VALUES ...
Topic(id, title, parent_id) ==
    [id |-> id, title |-> title, parent_id |-> parent_id]

SeededTopics ==
    {Topic(1, "Job", NULL), Topic(16, "I just lost my job", 1),
     Topic(17, "I need a job", 1), Topic(2, "Finances", NULL),
     Topic(18, "Budget Help", 2), Topic(19, "Work - Raise", 2),
     Topic(3, "Spouse", NULL), Topic(4, "Spouse - Infidelity", 3),
     Topic(5, "Spouse - Divorce", 3), Topic(6, "Spouse - Death", 3),
     Topic(7, "Children", NULL), Topic(8, "Children - Defiance", 7),
     Topic(9, "Children - School", 7), Topic(10, "Health", NULL),
     Topic(11, "Health - Spouse", 10), Topic(12, "Health - Friend", 10),
     Topic(13, "Health - Parent", 10), Topic(14, "Health - Child", 10),
     Topic(20, "Pregnancy", 10), Topic(15, "Other - God will know", NULL)}

\* History of the button holds, kept in the specifications that turn it on.
NoHolds(on) == [on |-> on, by |-> [id \in FrameIds |-> {}]]

HoldStarts(id, d) ==
    IF praying.on THEN [praying EXCEPT !.by[id] = @ \cup {d}] ELSE praying

HoldEnds(id, d) ==
    IF praying.on THEN [praying EXCEPT !.by[id] = @ \ {d}] ELSE praying

--------------------------------------------------------------------------
\* The store after init-database, with no device registered and pushes
\* disabled (FIREBASE_SERVICE_ACCOUNT not set).
Quiet ==
    /\ praying = NoHolds(FALSE)
    /\ prayer_topics = SeededTopics
    /\ devices = << >>
    /\ firebaseAdmin = FALSE
    /\ sent = {}

Init ==
    /\ Quiet
    /\ now = 0
    /\ prayer_requests = << >>
    /\ next_request_id = 1
    /\ device_prayers = EmptyBag
    /\ inflight = [p \in Handlers |-> Idle]
    /\ resp = NoResponse
    /\ joinIncs = [d \in Devices |-> [id \in FrameIds |-> 0]]

\* Time passes.
Tick ==
    /\ now + TickStep <= MaxTicks * TickStep
    /\ now' = now + TickStep
    /\ resp' = NoResponse
    /\ UNCHANGED <<collaborators, praying>>
    /\ UNCHANGED <<prayer_requests, next_request_id, device_prayers,
                   inflight, joinIncs>>

\* Faulty variant: topic_id without REFERENCES prayer_topics(id).
SubmitPrayerRequest_NoForeignKey(topic_id, d) ==
    /\ UNCHANGED <<collaborators, praying>>
    /\ UNCHANGED <<now, device_prayers, inflight, joinIncs>>
    /\ IF topic_id = NoTopic
       THEN /\ resp' = Response("submit", 0, d, 400, "validation", NoRow, {})
            /\ UNCHANGED <<prayer_requests, next_request_id>>
       ELSE /\ LET id == next_request_id
                   row == [id |-> id, topic_id |-> topic_id, device_id |-> d,
                           prayer_count |-> 0, active_prayers |-> 0,
                           created_at |-> now, expires_at |-> now + TTL]
               IN  /\ prayer_requests' =
                          [i \in DOMAIN prayer_requests \cup {id} |->
                              IF i = id THEN row ELSE prayer_requests[i]]
                   /\ next_request_id' = id + 1
                   /\ resp' = Response("submit", id, d, 201, "created", row,
                                       {"insert"})

\* POST /api/prayer-requests
SubmitPrayerRequest(topic_id, d) ==
    /\ UNCHANGED <<collaborators, praying>>
    /\ UNCHANGED <<now, device_prayers, inflight, joinIncs>>
    /\ IF topic_id = NoTopic
       THEN /\ resp' = Response("submit", 0, d, 400, "validation", NoRow, {})
            /\ UNCHANGED <<prayer_requests, next_request_id>>
       ELSE IF topic_id \notin TopicIds
       THEN /\ resp' = Response("submit", 0, d, 500, "fk_violation", NoRow, {})
            /\ UNCHANGED <<prayer_requests, next_request_id>>
       ELSE /\ LET id == next_request_id
                   row == [id |-> id, topic_id |-> topic_id, device_id |-> d,
                           prayer_count |-> 0, active_prayers |-> 0,
                           created_at |-> now, expires_at |-> now + TTL]
               IN  /\ prayer_requests' =
                          [i \in DOMAIN prayer_requests \cup {id} |->
                              IF i = id THEN row ELSE prayer_requests[i]]
                   /\ next_request_id' = id + 1
                   /\ resp' = Response("submit", id, d, 201, "created", row,
                                       {"insert"})

\* GET /api/prayer-requests
GetPrayerRequests ==
    /\ resp' = ListResponse("list",
                   {prayer_requests[id] : id \in
                       {i \in DOMAIN prayer_requests : ActiveRequest(i)}})
    /\ UNCHANGED <<collaborators, praying>>
    /\ UNCHANGED <<now, prayer_requests, next_request_id, device_prayers,
                   inflight, joinIncs>>

--------------------------------------------------------------------------
(* POST /api/prayer-requests/:id/join *)

\* validation and the first statement: does the request exist, unexpired?
Join(p, id, d) ==
    /\ inflight[p] = Idle
    /\ UNCHANGED <<collaborators, praying>>
    /\ UNCHANGED <<now, prayer_requests, next_request_id, device_prayers,
                   joinIncs>>
    /\ IF d = NoDevice
       THEN /\ resp' = Response("join", id, d, 400, "validation", NoRow, {})
            /\ UNCHANGED inflight
       ELSE IF ~ActiveRequest(id)
       THEN /\ resp' = Response("join", id, d, 404, "not_found", NoRow, {})
            /\ UNCHANGED inflight
       ELSE /\ inflight' = [inflight EXCEPT
                               ![p] = Suspended("join", "lookup", id, d)]
            /\ resp' = NoResponse

\* Faulty variant: the handler without its already-joined lookup.
JoinLookup_AlwaysNew(p) ==
    /\ inflight[p].op = "join" /\ inflight[p].pc = "lookup"
    /\ inflight' = [inflight EXCEPT ![p].pc = "insert"]
    /\ resp' = NoResponse
    /\ UNCHANGED <<collaborators, praying>>
    /\ UNCHANGED <<now, prayer_requests, next_request_id, device_prayers,
                   joinIncs>>

\* second statement: has the device already joined?
JoinLookup(p) ==
    /\ inflight[p].op = "join" /\ inflight[p].pc = "lookup"
    /\ LET id == inflight[p].id
           d == inflight[p].device_id
           existingJoin == SelectDevicePrayers(d, id)
       IN  inflight' = [inflight EXCEPT
                           ![p].pc = IF existingJoin = {} THEN "insert"
                                     ELSE "select"]
    /\ resp' = NoResponse
    /\ UNCHANGED <<collaborators, praying>>
    /\ UNCHANGED <<now, prayer_requests, next_request_id, device_prayers,
                   joinIncs>>

\* Faulty variant: INSERT ... ON CONFLICT DO NOTHING, and the handler goes
\* on to its UPDATE.
JoinInsert_OnConflictDoNothing(p) ==
    /\ inflight[p].op = "join" /\ inflight[p].pc = "insert"
    /\ UNCHANGED <<collaborators, praying>>
    /\ UNCHANGED <<now, prayer_requests, next_request_id, joinIncs>>
    /\ LET id == inflight[p].id
           d == inflight[p].device_id
       IN  IF ForeignKeyViolation(id)
           THEN /\ resp' = Response("join", id, d, 500, "fk_violation",
                                    NoRow, {})
                /\ inflight' = [inflight EXCEPT ![p] = Idle]
                /\ UNCHANGED device_prayers
           ELSE /\ device_prayers' = IF UniqueViolation(d, id)
                                     THEN device_prayers
                                     ELSE InsertDevicePrayer(d, id)
                /\ inflight' = [inflight EXCEPT ![p].pc = "update"]
                /\ resp' = NoResponse

\* new join: INSERT INTO device_prayers; a constraint violation is thrown
\* and caught by the handler's catch, which answers 500
JoinInsert(p) ==
    /\ inflight[p].op = "join" /\ inflight[p].pc = "insert"
    /\ UNCHANGED <<collaborators, praying>>
    /\ UNCHANGED <<now, prayer_requests, next_request_id, joinIncs>>
    /\ LET id == inflight[p].id
           d == inflight[p].device_id
       IN  IF ForeignKeyViolation(id)
           THEN /\ resp' = Response("join", id, d, 500, "fk_violation",
                                    NoRow, {})
                /\ inflight' = [inflight EXCEPT ![p] = Idle]
                /\ UNCHANGED device_prayers
           ELSE IF UniqueViolation(d, id)
           THEN /\ resp' = Response("join", id, d, 500, "unique_violation",
                                    NoRow, {})
                /\ inflight' = [inflight EXCEPT ![p] = Idle]
                /\ UNCHANGED device_prayers
           ELSE /\ device_prayers' = InsertDevicePrayer(d, id)
                /\ inflight' = [inflight EXCEPT ![p].pc = "update"]
                /\ resp' = NoResponse

\* new join: UPDATE prayer_requests SET prayer_count = prayer_count + 1
\* ... RETURNING *, then res.json(result.rows[0])
JoinUpdate(p) ==
    /\ inflight[p].op = "join" /\ inflight[p].pc = "update"
    /\ UNCHANGED <<collaborators, praying>>
    /\ UNCHANGED <<now, next_request_id, device_prayers>>
    /\ inflight' = [inflight EXCEPT ![p] = Idle]
    /\ LET id == inflight[p].id
           d == inflight[p].device_id
       IN  IF id \in DOMAIN prayer_requests
           THEN /\ prayer_requests' = IncrementPrayerCount(id)
                /\ joinIncs' = [joinIncs EXCEPT ![d][id] = @ + 1]
                /\ resp' = Response("join", id, d, 200, "joined",
                                    prayer_requests'[id],
                                    {"insert", "increment"})
           ELSE /\ resp' = Response("join", id, d, 200, "joined", NoRow,
                                    {"insert"})
                /\ UNCHANGED <<prayer_requests, joinIncs>>

\* Faulty variant: the already-joined branch counts the device again.
JoinSelect_Recount(p) ==
    /\ inflight[p].op = "join" /\ inflight[p].pc = "select"
    /\ inflight[p].id \in DOMAIN prayer_requests
    /\ inflight' = [inflight EXCEPT ![p] = Idle]
    /\ prayer_requests' = IncrementPrayerCount(inflight[p].id)
    /\ resp' = Response("join", inflight[p].id, inflight[p].device_id, 200,
                        "already_joined", prayer_requests'[inflight[p].id], {})
    /\ UNCHANGED <<collaborators, praying>>
    /\ UNCHANGED <<now, next_request_id, device_prayers, joinIncs>>

\* already joined: SELECT * FROM prayer_requests WHERE id = $1
JoinSelect(p) ==
    /\ inflight[p].op = "join" /\ inflight[p].pc = "select"
    /\ inflight' = [inflight EXCEPT ![p] = Idle]
    /\ resp' = Response("join", inflight[p].id, inflight[p].device_id, 200,
                        "already_joined", SelectRequest(inflight[p].id), {})
    /\ UNCHANGED <<collaborators, praying>>
    /\ UNCHANGED <<now, prayer_requests, next_request_id, device_prayers,
                   joinIncs>>

--------------------------------------------------------------------------
(* The single-statement counter endpoints *)

\* POST /api/prayer-requests/:id/start-praying
StartPraying(id, d) ==
    /\ UNCHANGED collaborators
    /\ UNCHANGED <<now, next_request_id, device_prayers, inflight, joinIncs>>
    /\ IF d = NoDevice
       THEN /\ resp' = Response("start-praying", id, d, 400, "validation",
                                NoRow, {})
            /\ UNCHANGED <<prayer_requests, praying>>
       ELSE IF ~ActiveRequest(id)
       THEN /\ resp' = Response("start-praying", id, NoDevice, 404, "not_found",
                                NoRow, {})
            /\ UNCHANGED <<prayer_requests, praying>>
       ELSE /\ prayer_requests' = IncrementActivePrayers(id)
            /\ praying' = HoldStarts(id, d)
            /\ resp' = Response("start-praying", id, NoDevice, 200, "ok",
                                prayer_requests'[id], {"increment_active"})

\* Faulty variant: the legacy pray counts a request once only.
Pray_Once(id) ==
    /\ UNCHANGED <<collaborators, praying>>
    /\ UNCHANGED <<now, next_request_id, device_prayers, inflight, joinIncs>>
    /\ IF ~ActiveRequest(id)
       THEN /\ resp' = Response("pray", id, NoDevice, 404, "not_found",
                                NoRow, {})
            /\ UNCHANGED prayer_requests
       ELSE /\ prayer_requests' =
                   IF prayer_requests[id].prayer_count >= 1
                   THEN prayer_requests
                   ELSE [prayer_requests EXCEPT ![id].prayer_count = @ + 1,
                                                ![id].active_prayers = @ + 1]
            /\ resp' = Response("pray", id, NoDevice, 200, "ok",
                                prayer_requests'[id],
                                {"increment", "increment_active"})

\* POST /api/prayer-requests/:id/pray (legacy)
Pray(id) ==
    /\ UNCHANGED <<collaborators, praying>>
    /\ UNCHANGED <<now, next_request_id, device_prayers, inflight, joinIncs>>
    /\ IF ~ActiveRequest(id)
       THEN /\ resp' = Response("pray", id, NoDevice, 404, "not_found",
                                NoRow, {})
            /\ UNCHANGED prayer_requests
       ELSE /\ prayer_requests' =
                   [prayer_requests EXCEPT ![id].prayer_count = @ + 1,
                                           ![id].active_prayers = @ + 1]
            /\ resp' = Response("pray", id, NoDevice, 200, "ok",
                                prayer_requests'[id],
                                {"increment", "increment_active"})

\* POST /api/prayer-requests/:id/stop-praying
StopPraying(id, d) ==
    /\ UNCHANGED collaborators
    /\ UNCHANGED <<now, next_request_id, device_prayers, inflight, joinIncs>>
    /\ IF d = NoDevice
       THEN /\ resp' = Response("stop-praying", id, d, 400, "validation",
                                NoRow, {})
            /\ UNCHANGED <<prayer_requests, praying>>
       ELSE IF ~ActiveRequest(id)
       THEN /\ resp' = Response("stop-praying", id, NoDevice, 404, "not_found",
                                NoRow, {})
            /\ UNCHANGED <<prayer_requests, praying>>
       ELSE /\ prayer_requests' = DecrementActivePrayers(id)
            /\ praying' = HoldEnds(id, d)
            /\ resp' = Response("stop-praying", id, NoDevice, 200, "ok",
                                prayer_requests'[id], {DecrementKind(id)})

\* Faulty variant: the UPDATE without `AND expires_at > NOW()`.
DeleteComplete_AnyAge(id) ==
    /\ UNCHANGED <<collaborators, praying>>
    /\ UNCHANGED <<now, next_request_id, device_prayers, inflight, joinIncs>>
    /\ IF id \notin DOMAIN prayer_requests
       THEN /\ resp' = Response("delete-complete", id, NoDevice, 404,
                                "not_found", NoRow, {})
            /\ UNCHANGED prayer_requests
       ELSE /\ prayer_requests' = DecrementActivePrayers(id)
            /\ resp' = Response("delete-complete", id, NoDevice, 200, "ok",
                                NoRow, {DecrementKind(id)})

\* DELETE /api/prayer-requests/:id/complete (legacy)
DeleteComplete(id) ==
    /\ UNCHANGED <<collaborators, praying>>
    /\ UNCHANGED <<now, next_request_id, device_prayers, inflight, joinIncs>>
    /\ IF ~ActiveRequest(id)
       THEN /\ resp' = Response("delete-complete", id, NoDevice, 404,
                                "not_found", NoRow, {})
            /\ UNCHANGED prayer_requests
       ELSE /\ prayer_requests' = DecrementActivePrayers(id)
            /\ resp' = Response("delete-complete", id, NoDevice, 200, "ok",
                                NoRow, {DecrementKind(id)})

--------------------------------------------------------------------------
(* POST /api/prayer-requests/:id/complete *)

\* Faulty variant: no `if (!device_id)` guard before the first statement.
Complete_Unvalidated(p, id, d) ==
    /\ inflight[p] = Idle
    /\ UNCHANGED <<collaborators, praying>>
    /\ UNCHANGED <<now, prayer_requests, next_request_id, joinIncs>>
    /\ IF OpenDevicePrayers(d, id) = {}
       THEN /\ resp' = Response("complete", id, d, 404, "not_found",
                                NoRow, {})
            /\ UNCHANGED <<device_prayers, inflight>>
       ELSE /\ device_prayers' = MarkCompleted(d, id)
            /\ inflight' = [inflight EXCEPT
                               ![p] = Suspended("complete", "decrement", id, d)]
            /\ resp' = NoResponse

\* validation and the first statement: mark the device's open link completed
Complete(p, id, d) ==
    /\ inflight[p] = Idle
    /\ UNCHANGED <<collaborators, praying>>
    /\ UNCHANGED <<now, prayer_requests, next_request_id, joinIncs>>
    /\ IF d = NoDevice
       THEN /\ resp' = Response("complete", id, d, 400, "validation",
                                NoRow, {})
            /\ UNCHANGED <<device_prayers, inflight>>
       ELSE IF OpenDevicePrayers(d, id) = {}
       THEN /\ resp' = Response("complete", id, d, 404, "not_found",
                                NoRow, {})
            /\ UNCHANGED <<device_prayers, inflight>>
       ELSE /\ device_prayers' = MarkCompleted(d, id)
            /\ inflight' = [inflight EXCEPT
                               ![p] = Suspended("complete", "decrement", id, d)]
            /\ resp' = NoResponse

\* second statement: UPDATE prayer_requests SET active_prayers =
\* GREATEST(active_prayers - 1, 0) WHERE id = $1
CompleteDecrement(p) ==
    /\ inflight[p].op = "complete" /\ inflight[p].pc = "decrement"
    /\ UNCHANGED collaborators
    /\ UNCHANGED <<now, next_request_id, device_prayers, joinIncs>>
    /\ inflight' = [inflight EXCEPT ![p] = Idle]
    /\ praying' = HoldEnds(inflight[p].id, inflight[p].device_id)
    /\ LET id == inflight[p].id
           d == inflight[p].device_id
       IN  IF id \in DOMAIN prayer_requests
           THEN /\ prayer_requests' = DecrementActivePrayers(id)
                /\ resp' = Response("complete", id, d, 200, "completed",
                                    NoRow, {"complete", DecrementKind(id)})
           ELSE /\ resp' = Response("complete", id, d, 200, "completed",
                                    NoRow, {"complete"})
                /\ UNCHANGED prayer_requests

--------------------------------------------------------------------------
(* GET /api/stats *)

\* pr.expires_at > NOW()
ActiveIds == {id \in DOMAIN prayer_requests : ActiveRequest(id)}

\* prayer_requests pr LEFT JOIN device_prayers dp ON pr.id =
\* dp.prayer_request_id: the rows of the join that carry request id, one per
\* link of the request, and one (with a NULL dp) when it has no link
LeftJoinRows(id) ==
    IF CountDevicePrayers(id) = 0 THEN 1 ELSE CountDevicePrayers(id)

\* SUM(prayer_count) over the rows of the join
RECURSIVE SumPrayerCount(_)
SumPrayerCount(ids) ==
    IF ids = {} THEN 0
    ELSE LET id == CHOOSE i \in ids : TRUE
         IN  prayer_requests[id].prayer_count * LeftJoinRows(id)
             + SumPrayerCount(ids \ {id})

\* SUM(active_prayers) over the rows of the join
RECURSIVE SumActivePrayers(_)
SumActivePrayers(ids) ==
    IF ids = {} THEN 0
    ELSE LET id == CHOOSE i \in ids : TRUE
         IN  prayer_requests[id].active_prayers * LeftJoinRows(id)
             + SumActivePrayers(ids \ {id})

\* COUNT(CASE WHEN dp.completed_at IS NOT NULL THEN 1 END)
CountCompleted(ids) ==
    SumCopies(device_prayers,
              {row \in BagToSet(device_prayers) :
                  row.prayer_request_id \in ids /\ row.completed_at # NULL})

StatsRow(total, active, completed) ==
    [total_prayers |-> total, active_prayers |-> active,
     completed_prayers |-> completed]

GetStats ==
    /\ resp' = Response("stats", 0, NoDevice, 200, "ok",
                        StatsRow(SumPrayerCount(ActiveIds),
                                 SumActivePrayers(ActiveIds),
                                 CountCompleted(ActiveIds)), {})
    /\ UNCHANGED <<collaborators, praying>>
    /\ UNCHANGED <<now, prayer_requests, next_request_id, device_prayers,
                   inflight, joinIncs>>

\* the query rejects: catch, res.status(500).json({ zeros })
StatsQueryFails ==
    /\ resp' = Response("stats", 0, NoDevice, 500, "storage_failure",
                        StatsRow(0, 0, 0), {})
    /\ UNCHANGED <<collaborators, praying>>
    /\ UNCHANGED <<now, prayer_requests, next_request_id, device_prayers,
                   inflight, joinIncs>>

--------------------------------------------------------------------------
(* GET /api/prayer-topics *)

\* titles of the catalog specification; "2024" is a canonical array index,
\* which a JavaScript object enumerates before its other keys
Titles == {"Job", "Other", "2024"}

ArrayIndexKeys == {"2024"}

MainTopics == {t \in prayer_topics : t.parent_id = NULL}

\* p of LEFT JOIN prayer_topics p ON pt.parent_id = p.id
ParentOf(t) == CHOOSE p \in prayer_topics : p.id = t.parent_id

\* CASE WHEN pt.parent_id IS NULL THEN pt.title ELSE p.title END
MainCategory(t) == IF t.parent_id = NULL THEN t.title ELSE ParentOf(t).title

\* ORDER BY CASE WHEN pt.parent_id IS NULL THEN pt.id ELSE pt.parent_id END,
\*          pt.parent_id IS NULL DESC, pt.id
OrderKey(t) ==
    <<IF t.parent_id = NULL THEN t.id ELSE t.parent_id,
      IF t.parent_id = NULL THEN 0 ELSE 1,
      t.id>>

OrderedBefore(a, b) ==
    \/ OrderKey(a)[1] < OrderKey(b)[1]
    \/ /\ OrderKey(a)[1] = OrderKey(b)[1]
       /\ \/ OrderKey(a)[2] < OrderKey(b)[2]
          \/ /\ OrderKey(a)[2] = OrderKey(b)[2]
             /\ OrderKey(a)[3] <= OrderKey(b)[3]

\* result.rows
RECURSIVE TopicRows(_)
TopicRows(topics) ==
    IF topics = {} THEN << >>
    ELSE LET first == CHOOSE t \in topics :
                          \A u \in topics : OrderedBefore(t, u)
         IN  <<first>> \o TopicRows(topics \ {first})

\* result.rows.forEach(topic => ...): categorized, as the sequence of its
\* keys in insertion order and the group under each key
RECURSIVE Categorize(_, _, _)
Categorize(rows, keys, categorized) ==
    IF rows = << >> THEN [keys |-> keys, categorized |-> categorized]
    ELSE LET topic == Head(rows)
             mainCat == MainCategory(topic)
             isNew == mainCat \notin DOMAIN categorized
             group == IF isNew
                      THEN [id |-> IF topic.parent_id # NULL
                                   THEN topic.parent_id ELSE topic.id,
                            title |-> mainCat,
                            subcategories |-> << >>]
                      ELSE categorized[mainCat]
             pushed == IF topic.parent_id # NULL
                       THEN [group EXCEPT !.subcategories =
                                Append(@, [id |-> topic.id,
                                           title |-> topic.title])]
                       ELSE group
         IN  Categorize(Tail(rows),
                        IF isNew THEN Append(keys, mainCat) ELSE keys,
                        [k \in DOMAIN categorized \cup {mainCat} |->
                            IF k = mainCat THEN pushed ELSE categorized[k]])

\* Object.values(categorized): the array-index keys first, then the other
\* keys in insertion order
ObjectValues(keys, categorized) ==
    LET index == SelectSeq(keys, LAMBDA k : k \in ArrayIndexKeys)
        other == SelectSeq(keys, LAMBDA k : k \notin ArrayIndexKeys)
        order == index \o other
    IN  [i \in 1 .. Len(order) |-> categorized[order[i]]]

GetPrayerTopics ==
    /\ LET c == Categorize(TopicRows(prayer_topics), << >>, << >>)
       IN  resp' = Response("topics", 0, NoDevice, 200, "ok",
                            ObjectValues(c.keys, c.categorized), {})
    /\ UNCHANGED <<collaborators, praying>>
    /\ UNCHANGED <<now, prayer_requests, next_request_id, device_prayers,
                   inflight, joinIncs>>

\* the query rejects
TopicsQueryFails ==
    /\ resp' = Response("topics", 0, NoDevice, 500, "storage_failure",
                        NoRow, {})
    /\ UNCHANGED <<collaborators, praying>>
    /\ UNCHANGED <<now, prayer_requests, next_request_id, device_prayers,
                   inflight, joinIncs>>

--------------------------------------------------------------------------
(* The per-device reads *)

RecentLimit == 5     \* LIMIT 5

\* FROM device_prayers dp JOIN prayer_requests pr ON dp.prayer_request_id =
\* pr.id WHERE dp.device_id = $1: the columns of pr and dp that are selected
DevicePrayerRows(d) ==
    {[id |-> row.prayer_request_id,
      prayer_count |-> prayer_requests[row.prayer_request_id].prayer_count,
      active_prayers |-> prayer_requests[row.prayer_request_id].active_prayers,
      expires_at |-> prayer_requests[row.prayer_request_id].expires_at,
      completed_at |-> row.completed_at] :
        row \in {r \in BagToSet(device_prayers) :
                    /\ r.device_id = d
                    /\ r.prayer_request_id \in DOMAIN prayer_requests}}

\* GET /api/device/:deviceId/prayers: ... AND pr.expires_at > NOW()
GetDevicePrayers(d) ==
    /\ resp' = [ListResponse("device-prayers",
                    {row \in DevicePrayerRows(d) : ActiveRequest(row.id)})
                    EXCEPT !.device_id = d]
    /\ UNCHANGED <<collaborators, praying>>
    /\ UNCHANGED <<now, prayer_requests, next_request_id, device_prayers,
                   inflight, joinIncs>>

\* ORDER BY dp.joined_at DESC LIMIT 5
Limit(rows) ==
    IF Cardinality(rows) <= RecentLimit THEN rows
    ELSE CHOOSE S \in SUBSET rows : Cardinality(S) = RecentLimit

\* SELECT COUNT(*), COUNT(CASE WHEN completed_at IS NOT NULL ...),
\* COUNT(CASE WHEN completed_at IS NULL ...) FROM device_prayers WHERE
\* device_id = $1
PrayerStats(d) ==
    LET mine == {row \in BagToSet(device_prayers) : row.device_id = d}
    IN  [total_joined_prayers |-> SumCopies(device_prayers, mine),
         completed_prayers |->
             SumCopies(device_prayers,
                       {row \in mine : row.completed_at # NULL}),
         currently_active_prayers |->
             SumCopies(device_prayers,
                       {row \in mine : row.completed_at = NULL})]

\* GET /api/device/:deviceId/info: recent_activity has no expires_at filter
GetDeviceInfo(d) ==
    /\ resp' = [ListResponse("device-info", Limit(DevicePrayerRows(d)))
                    EXCEPT !.device_id = d, !.body = PrayerStats(d)]
    /\ UNCHANGED <<collaborators, praying>>
    /\ UNCHANGED <<now, prayer_requests, next_request_id, device_prayers,
                   inflight, joinIncs>>

--------------------------------------------------------------------------
(* Maintenance *)

\* DELETE /api/cleanup-expired
CleanupExpired ==
    /\ prayer_requests' =
           [id \in DOMAIN prayer_requests \ ExpiredIds |-> prayer_requests[id]]
    /\ device_prayers' = CascadeDelete(ExpiredIds)
    /\ resp' = Response("cleanup", Cardinality(ExpiredIds), NoDevice, 200,
                        "ok", NoRow, {})
    /\ UNCHANGED <<collaborators, praying>>
    /\ UNCHANGED <<now, next_request_id, inflight, joinIncs>>

\* Faulty variant: the reset clears both counters.
ResetActivePrayers_BothCounters ==
    /\ prayer_requests' =
           [id \in DOMAIN prayer_requests |->
               [prayer_requests[id] EXCEPT !.active_prayers = 0,
                                           !.prayer_count = 0]]
    /\ resp' = Response("reset", Cardinality(DOMAIN prayer_requests),
                        NoDevice, 200, "ok", NoRow, {})
    /\ UNCHANGED <<collaborators, praying>>
    /\ UNCHANGED <<now, next_request_id, device_prayers, inflight, joinIncs>>

\* POST /api/reset-active-prayers
ResetActivePrayers ==
    /\ prayer_requests' =
           [id \in DOMAIN prayer_requests |->
               [prayer_requests[id] EXCEPT !.active_prayers = 0]]
    /\ resp' = Response("reset", Cardinality(DOMAIN prayer_requests),
                        NoDevice, 200, "ok", NoRow, {})
    /\ UNCHANGED <<collaborators, praying>>
    /\ UNCHANGED <<now, next_request_id, device_prayers, inflight, joinIncs>>

--------------------------------------------------------------------------
(* Push notifications *)

NullText == "<NULL>"     \* SQL NULL in a TEXT column
NoPlatform == ""         \* platform missing from the body
NoRequestId == 0         \* prayer_request_id missing from the body
Platforms == {"ios"}
Delivery == {"delivered", "rejected"}   \* firebaseAdmin.messaging().send

\* the push_token the app of device d registers
DeviceToken(d) == IF d = "A" THEN "fcm-A" ELSE "fcm-B"

\* push_token in a register-device body: missing, empty, or the token
PushTokens(d) == {NullText, "", DeviceToken(d)}

\* POST /api/register-device
RegisterDevice(d, push_token, platform) ==
    /\ UNCHANGED <<now, prayer_requests, next_request_id, device_prayers,
                   inflight, joinIncs, praying, prayer_topics, firebaseAdmin>>
    /\ sent' = {}
    /\ IF d = NoDevice \/ platform = NoPlatform
       THEN /\ resp' = Response("register-device", 0, d, 400, "validation",
                                NoRow, {})
            /\ UNCHANGED devices
       ELSE LET row == [device_id |-> d, push_token |-> push_token,
                        platform |-> platform]
            IN  /\ devices' = [i \in DOMAIN devices \cup {d} |->
                                  IF i = d THEN row ELSE devices[i]]
                /\ resp' = Response("register-device", 0, d, 200, "ok",
                                    [success |-> TRUE, device |-> row], {})

\* One call of sendPushNotification for the devices row of device d: what
\* it returns, whether it called messaging().send (attempted, with the
\* outcome fcm) and whether it threw.
Call(d, pushToken, fcm, attempted, raised, returned) ==
    [device_id |-> d, push_token |-> pushToken, fcm |-> fcm,
     attempted |-> attempted, raised |-> raised, returned |-> returned]

\* Faulty variant: messaging().send awaited outside the try block.
SendPushNotification_NoCatch(d, pushToken, fcm) ==
    IF ~firebaseAdmin
    THEN Call(d, pushToken, "-", FALSE, FALSE, FALSE)
    ELSE IF fcm = "delivered"
    THEN Call(d, pushToken, fcm, TRUE, FALSE, TRUE)
    ELSE Call(d, pushToken, fcm, TRUE, TRUE, FALSE)

\* async function sendPushNotification(pushToken, platform, title, body, data)
SendPushNotification(d, pushToken, fcm) ==
    IF ~firebaseAdmin
    THEN Call(d, pushToken, "-", FALSE, FALSE, FALSE)
    ELSE IF fcm = "delivered"
    THEN Call(d, pushToken, fcm, TRUE, FALSE, TRUE)
    ELSE Call(d, pushToken, fcm, TRUE, FALSE, FALSE)

\* LEFT JOIN devices d ON pr.device_id = d.device_id : d.push_token
CreatorPushToken(creator) ==
    IF creator \in DOMAIN devices THEN devices[creator].push_token
    ELSE NullText

\* if (!prayerRequest.push_token)
NoPushToken(push_token) == push_token \in {NullText, ""}

\* Faulty variant: the joiner is never taken for the creator.
SameDevice_Never(creator, joiner) == FALSE

\* if (prayerRequest.device_id === joiner_device_id)
SameDevice(creator, joiner) == creator = joiner

\* POST /api/send-prayer-joined
SendPrayerJoined(id, joiner, fcm) ==
    /\ UNCHANGED <<now, prayer_requests, next_request_id, device_prayers,
                   inflight, joinIncs, praying, prayer_topics, devices,
                   firebaseAdmin>>
    /\ IF id = NoRequestId
       THEN /\ resp' = Response("send-prayer-joined", id, joiner, 400,
                                "validation", NoRow, {})
            /\ sent' = {}
       ELSE IF \/ id \notin DOMAIN prayer_requests
               \/ prayer_requests[id].device_id = NoDevice
       THEN /\ resp' = Response("send-prayer-joined", id, joiner, 404,
                                "not_found", NoRow, {})
            /\ sent' = {}
       ELSE LET creator == prayer_requests[id].device_id
                push_token == CreatorPushToken(creator)
                call == SendPushNotification(creator, push_token, fcm)
            IN  IF NoPushToken(push_token)
                THEN /\ resp' = Response("send-prayer-joined", id, joiner,
                                         200, "no_push_token",
                                         [success |-> TRUE], {})
                     /\ sent' = {}
                ELSE IF SameDevice(creator, joiner)
                THEN /\ resp' = Response("send-prayer-joined", id, joiner,
                                         200, "same_device",
                                         [success |-> TRUE], {})
                     /\ sent' = {}
                ELSE /\ sent' = {call}
                     /\ IF call.raised
                        THEN resp' = Response("send-prayer-joined", id,
                                              joiner, 500, "error", NoRow, {})
                        ELSE resp' = Response("send-prayer-joined", id,
                                              joiner, 200, "sent",
                                              [success |-> call.returned], {})

\* SELECT device_id, push_token, platform FROM devices WHERE push_token IS
\* NOT NULL [AND device_id != $1]
SelectDevices(requester) ==
    {d \in DOMAIN devices :
        /\ devices[d].push_token # NullText
        /\ requester # NoDevice => d # requester}

\* Faulty variant: every settled promise counts as a success.
SuccessCount_Settled(calls) == Cardinality(calls)

\* results.filter(result => result.status === 'fulfilled' && result.value)
\*        .length
SuccessCount(calls) ==
    Cardinality({call \in calls : ~call.raised /\ call.returned})

\* devices.map(device => sendPushNotification(...)), Promise.allSettled and
\* the response, of send-prayer-request and send-daily-reminder
FanOut(op, requester, fcm) ==
    LET targets == SelectDevices(requester)
        calls == {SendPushNotification(d, devices[d].push_token, fcm[d]) :
                      d \in targets}
    IN  /\ sent' = calls
        /\ resp' = Response(op, 0, requester, 200, "ok",
                       [success |-> TRUE,
                        devices_notified |-> Cardinality(targets),
                        successful_notifications |-> SuccessCount(calls)],
                       {})

\* POST /api/send-prayer-request
SendPrayerRequest(valid, requester, fcm) ==
    /\ UNCHANGED <<now, prayer_requests, next_request_id, device_prayers,
                   inflight, joinIncs, praying, prayer_topics, devices,
                   firebaseAdmin>>
    /\ IF ~valid
       THEN /\ resp' = Response("send-prayer-request", 0, requester, 400,
                                "validation", NoRow, {})
            /\ sent' = {}
       ELSE FanOut("send-prayer-request", requester, fcm)

\* POST /api/send-daily-reminder
SendDailyReminder(fcm) ==
    /\ UNCHANGED <<now, prayer_requests, next_request_id, device_prayers,
                   inflight, joinIncs, praying, prayer_topics, devices,
                   firebaseAdmin>>
    /\ FanOut("send-daily-reminder", NoDevice, fcm)

\* pool.query rejects in a notification endpoint: its catch answers 500
NotifyQueryFails(op) ==
    /\ UNCHANGED <<now, prayer_requests, next_request_id, device_prayers,
                   inflight, joinIncs, praying, prayer_topics, devices,
                   firebaseAdmin>>
    /\ sent' = {}
    /\ resp' = Response(op, 0, NoDevice, 500, "error", NoRow, {})

--------------------------------------------------------------------------
(* pool.query rejects (connection lost, statement timeout): the handler's  *)
(* catch answers 500.                                                      *)

MutatingOps == {"join", "start-praying", "pray", "stop-praying", "complete",
                "delete-complete"}

\* the first statement of a handler rejects
QueryFails(op, id, d) ==
    /\ resp' = Response(op, id, d, 500, "storage_failure", NoRow, {})
    /\ UNCHANGED <<collaborators, praying>>
    /\ UNCHANGED <<now, prayer_requests, next_request_id, device_prayers,
                   inflight, joinIncs>>

\* the next statement of a suspended handler rejects
HandlerQueryFails(p) ==
    /\ inflight[p] # Idle
    /\ inflight' = [inflight EXCEPT ![p] = Idle]
    /\ resp' = Response(inflight[p].op, inflight[p].id, inflight[p].device_id,
                        500, "storage_failure", NoRow,
                        IF inflight[p].pc = "update" THEN {"insert"}
                        ELSE IF inflight[p].pc = "decrement" THEN {"complete"}
                        ELSE {})
    /\ UNCHANGED <<collaborators, praying>>
    /\ UNCHANGED <<now, prayer_requests, next_request_id, device_prayers,
                   joinIncs>>

--------------------------------------------------------------------------
\* A new request is served by the first idle handler slot of H (the slots
\* are interchangeable).
IdleSlot(H) ==
    {p \in H : inflight[p] = Idle /\ \A q \in H : q < p => inflight[q] # Idle}

\* The bounds of the model: the counters of request id may still be raised.
ActiveBelowMax(id) ==
    id \in DOMAIN prayer_requests =>
        prayer_requests[id].active_prayers < MaxCount

CountBelowMax(id) ==
    id \in DOMAIN prayer_requests =>
        prayer_requests[id].prayer_count < MaxCount

\* The join and complete endpoints, with the handlers of H and device_id
\* drawn from D, and a prayer request submitted while its id is in Ids.
Participation(H, D, Ids) ==
    \/ next_request_id \in Ids /\ SubmitPrayerRequest(1, "A")
    \/ \E p \in IdleSlot(H), id \in Ids, d \in D : Join(p, id, d)
    \/ \E p \in H : JoinLookup(p)
    \/ \E p \in H : JoinInsert(p)
    \/ \E p \in H : JoinUpdate(p)
    \/ \E p \in H : JoinSelect(p)
    \/ \E id \in Ids, d \in D : ActiveBelowMax(id) /\ StartPraying(id, d)
    \/ \E p \in IdleSlot(H), id \in Ids, d \in D : Complete(p, id, d)
    \/ \E p \in H : CompleteDecrement(p)

\* Every endpoint but the legacy pray.
Endpoints(H, D, Ids) ==
    \/ Participation(H, D, Ids)
    \/ Tick
    \/ \E id \in Ids, d \in D : StopPraying(id, d)
    \/ \E id \in Ids : DeleteComplete(id)
    \/ CleanupExpired
    \/ ResetActivePrayers
    \/ \E p \in H : HandlerQueryFails(p)

NextCore == Endpoints(Handlers, Devices, RequestIds)

Next ==
    \/ NextCore
    \/ \E id \in RequestIds :
          ActiveBelowMax(id) /\ CountBelowMax(id) /\ Pray(id)

\* Concurrent requests: the handlers interleave at their awaits.
Spec == Init /\ [][Next]_vars

\* The same, with the legacy pray endpoint never called.
SpecNoLegacy == Init /\ [][NextCore]_vars

\* Concurrent requests with no statement rejected by the store and the
\* legacy pray endpoint never called.
NextConcurrent ==
    \/ Participation(Handlers, Devices, RequestIds)
    \/ Tick
    \/ \E id \in RequestIds, d \in Devices : StopPraying(id, d)
    \/ \E id \in RequestIds : DeleteComplete(id)
    \/ CleanupExpired
    \/ ResetActivePrayers

SpecConcurrent == Init /\ [][NextConcurrent]_vars

\* One request at a time (each handler answers before the next request
\* arrives), with invalid bodies and failing first statements.
NextSeq ==
    \/ Endpoints({1}, Devices \cup {NoDevice}, RequestIds)
    \/ \E id \in RequestIds :
          ActiveBelowMax(id) /\ CountBelowMax(id) /\ Pray(id)
    \/ \E t \in {NoTopic, BadTopic} : SubmitPrayerRequest(t, "A")
    \/ GetPrayerRequests
    \/ \E op \in MutatingOps, id \in RequestIds : QueryFails(op, id, "A")
    \/ GetStats
    \/ StatsQueryFails
    \/ \E d \in Devices : GetDevicePrayers(d)
    \/ \E d \in Devices : GetDeviceInfo(d)

SpecSeq == Init /\ [][NextSeq]_vars

\* One request at a time over two prayer requests: join, start-praying and
\* complete only, at one instant.
NextFrame == Participation({1}, Devices, FrameIds)

SpecFrame == Init /\ [][NextFrame]_vars

\* One request at a time over two prayer requests submitted at different
\* hours, with the cleanup sweep and submissions for an unknown topic.
NextSweep ==
    \/ Participation({1}, Devices, FrameIds)
    \/ Tick
    \/ CleanupExpired
    \/ SubmitPrayerRequest(BadTopic, "A")

SpecSweep == Init /\ [][NextSweep]_vars

\* The topic catalog over every prayer_topics table of at most MaxTopics
\* rows that the schema admits with one level of nesting: ids are unique,
\* parent_id references a stored row, and that row is a main category.
TopicTables ==
    LET absent == Topic(0, "", NULL)
        choices == {absent} \cup
                   {Topic(0, title, parent_id) :
                       title \in Titles,
                       parent_id \in {NULL} \cup (1 .. MaxTopics)}
        table(f) == {[f[id] EXCEPT !.id = id] :
                        id \in {i \in 1 .. MaxTopics : f[i] # absent}}
    IN  {table(f) : f \in [1 .. MaxTopics -> choices]}

DepthAtMostOne(topics) ==
    \A t \in topics :
        t.parent_id # NULL =>
            \E p \in topics : p.id = t.parent_id /\ p.parent_id = NULL

InitTopics ==
    /\ now = 0
    /\ prayer_requests = << >>
    /\ next_request_id = 1
    /\ device_prayers = EmptyBag
    /\ inflight = [p \in Handlers |-> Idle]
    /\ resp = NoResponse
    /\ joinIncs = [d \in Devices |-> [id \in FrameIds |-> 0]]
    /\ praying = NoHolds(FALSE)
    /\ prayer_topics \in {topics \in TopicTables : DepthAtMostOne(topics)}
    /\ devices = << >>
    /\ firebaseAdmin = FALSE
    /\ sent = {}

NextTopics ==
    \/ GetPrayerTopics
    \/ TopicsQueryFails

SpecTopics == InitTopics /\ [][NextTopics]_vars

\* One request at a time, with the history of the button holds recorded:
\* join, start-praying, stop-praying and complete at one instant.
InitGauge ==
    /\ now = 0
    /\ prayer_requests = << >>
    /\ next_request_id = 1
    /\ device_prayers = EmptyBag
    /\ inflight = [p \in Handlers |-> Idle]
    /\ resp = NoResponse
    /\ joinIncs = [d \in Devices |-> [id \in FrameIds |-> 0]]
    /\ praying = NoHolds(TRUE)
    /\ prayer_topics = SeededTopics
    /\ devices = << >>
    /\ firebaseAdmin = FALSE
    /\ sent = {}

NextGauge ==
    \/ Participation({1}, Devices, RequestIds)
    \/ \E id \in RequestIds, d \in Devices : StopPraying(id, d)

SpecGauge == InitGauge /\ [][NextGauge]_vars

\* The notification endpoints over every registration of the devices, with
\* pushes enabled or disabled at startup, and a prayer request created by a
\* device or without device_id.
InitNotify ==
    /\ now = 0
    /\ prayer_requests = << >>
    /\ next_request_id = 1
    /\ device_prayers = EmptyBag
    /\ inflight = [p \in Handlers |-> Idle]
    /\ resp = NoResponse
    /\ joinIncs = [d \in Devices |-> [id \in FrameIds |-> 0]]
    /\ praying = NoHolds(FALSE)
    /\ prayer_topics = SeededTopics
    /\ devices = << >>
    /\ firebaseAdmin \in BOOLEAN
    /\ sent = {}

NextNotify ==
    \/ /\ next_request_id \in RequestIds
       /\ \E d \in Devices \cup {NoDevice} : SubmitPrayerRequest(1, d)
    \/ \E d \in Devices \cup {NoDevice}, platform \in Platforms :
          \E push_token \in PushTokens(d) :
              RegisterDevice(d, push_token, platform)
    \/ \E d \in Devices : RegisterDevice(d, DeviceToken(d), NoPlatform)
    \/ \E id \in RequestIds \cup {NoRequestId},
          joiner \in Devices \cup {NoDevice}, fcm \in Delivery :
          SendPrayerJoined(id, joiner, fcm)
    \/ \E valid \in BOOLEAN, requester \in Devices \cup {NoDevice},
          fcm \in [Devices -> Delivery] :
          SendPrayerRequest(valid, requester, fcm)
    \/ \E fcm \in [Devices -> Delivery] : SendDailyReminder(fcm)
    \/ \E op \in {"register-device", "send-prayer-joined",
                  "send-prayer-request", "send-daily-reminder"} :
          NotifyQueryFails(op)

SpecNotify == InitNotify /\ [][NextNotify]_vars

\* One client's session, each request sent when the previous one has been
\* answered: a prayer request is created, a device joins it, joins it again,
\* starts praying and completes.
NextScenario ==
    \/ next_request_id = 1 /\ \E topic_id \in TopicIds, d \in Devices :
          SubmitPrayerRequest(topic_id, d)
    \/ resp.op = "submit" /\ \E d \in Devices : Join(1, resp.id, d)
    \/ JoinLookup(1)
    \/ JoinInsert(1)
    \/ JoinUpdate(1)
    \/ resp.cause = "joined" /\ Join(1, resp.id, resp.device_id)
    \/ JoinSelect(1)
    \/ resp.cause = "already_joined" /\ StartPraying(resp.id, resp.device_id)
    \/ resp.op = "start-praying" /\ \E row \in BagToSet(device_prayers) :
          Complete(1, resp.id, row.device_id)
    \/ CompleteDecrement(1)

SpecScenario == Init /\ [][NextScenario]_vars


--------------------------------------------------------------------------
(* Properties *)

\* WHERE expires_at <= NOW(): the request is stored and its TTL has elapsed
Expired(id) ==
    id \in DOMAIN prayer_requests /\ prayer_requests[id].expires_at <= now

\* the link rows of (d, id) whose completed_at is set
CompletedDevicePrayers(d, id) ==
    {row \in SelectDevicePrayers(d, id) : row.completed_at # NULL}

\* C1: in every reachable state, every stored prayer request's prayer_count
\* equals the number of device_prayers rows that reference it.
C1_PrayerCountEqualsLinkCount ==
    \A id \in DOMAIN prayer_requests :
        prayer_requests[id].prayer_count = CountDevicePrayers(id)

\* C2: however the statements of concurrent joins of one (device, request)
\* pair interleave, the joins increment prayer_count at most once in total.
C2_JoinIncrementsAtMostOnce ==
    \A d \in Devices, id \in FrameIds : joinIncs[d][id] <= 1

\* C2 happens: a join lost the race for the link row after the other join of
\* the same pair had inserted it and incremented prayer_count.
C2_Witness ==
    /\ resp.op = "join"
    /\ resp.cause = "unique_violation"
    /\ joinIncs[resp.device_id][resp.id] = 1

\* C3: when a join has ended, with a response of any kind, it has inserted
\* the link and incremented prayer_count, or it has done neither (the
\* request still being stored).
C3_JoinInsertAndIncrementAtomic ==
    (resp.op = "join" /\ resp.id \in DOMAIN prayer_requests) =>
        ("insert" \in resp.did <=> "increment" \in resp.did)

\* C4: a join whose INSERT hits the uniqueness constraint answers as the
\* already-joined branch does: 200 with the current request row.
C4_DuplicateInsertIsNoOp ==
    (resp.op = "join" /\ resp.cause = "unique_violation") =>
        (resp.status = 200 /\ resp.body = SelectRequest(resp.id))

\* C5: once a join of (device, request) has succeeded, no statement of a
\* join of the same pair changes a counter or a link; the later join takes
\* the already-joined branch and answers 200 with the stored request row,
\* which is the row the first join answered with (its row after the
\* increment) as long as nothing else has changed it.
C5_Step(p) ==
    /\ \A id \in FrameIds, d \in Devices :
          (Join(p, id, d) /\ joinIncs[d][id] >= 1) =>
              UNCHANGED <<prayer_requests, device_prayers>>
    /\ (/\ inflight[p].op = "join"
        /\ joinIncs[inflight[p].device_id][inflight[p].id] >= 1
        /\ (JoinLookup(p) \/ JoinInsert(p) \/ JoinUpdate(p) \/ JoinSelect(p)))
          => UNCHANGED <<prayer_requests, device_prayers>>
    /\ (/\ inflight[p].op = "join"
        /\ joinIncs[inflight[p].device_id][inflight[p].id] >= 1
        /\ inflight[p].id \in DOMAIN prayer_requests
        /\ JoinLookup(p))
          => inflight'[p].pc = "select"
    /\ (JoinUpdate(p) /\ inflight[p].id \in DOMAIN prayer_requests) =>
          /\ resp'.status = 200
          /\ resp'.body = prayer_requests'[inflight[p].id]
    /\ (JoinSelect(p) /\ inflight[p].id \in DOMAIN prayer_requests) =>
          /\ resp'.status = 200
          /\ resp'.body = prayer_requests[inflight[p].id]

C5_RejoinIsIdempotent == [][\A p \in Handlers : C5_Step(p)]_vars

\* C5 happens: a device that had joined joined again and was answered from
\* the already-joined branch.
C5_Witness ==
    /\ resp.op = "join"
    /\ resp.cause = "already_joined"
    /\ resp.status = 200
    /\ joinIncs[resp.device_id][resp.id] = 1
    /\ resp.id \in DOMAIN prayer_requests
    /\ resp.body = prayer_requests[resp.id]
    /\ resp.body.prayer_count >= 1

\* C6: active_prayers of every stored request is never negative.
C6_ActivePrayersNonNegative ==
    \A id \in DOMAIN prayer_requests : prayer_requests[id].active_prayers >= 0

\* C6 happens: a decrement met active_prayers = 0 and left it there.
C6_Witness ==
    /\ resp.op \in {"stop-praying", "complete", "delete-complete"}
    /\ "floor" \in resp.did
    /\ resp.id \in DOMAIN prayer_requests
    /\ prayer_requests[resp.id].active_prayers = 0

\* C7: the active list holds no expired request, and join, start-praying,
\* stop-praying, complete and the legacy pray called on an expired, not yet
\* cleaned up request answer 404 and change no counter and no link.
C7_NotFound(id) ==
    /\ resp'.status = 404
    /\ UNCHANGED <<prayer_requests, device_prayers, inflight>>

C7_Step ==
    /\ GetPrayerRequests => \A row \in resp'.rows : ~Expired(row.id)
    /\ \A id \in FrameIds : Expired(id) =>
          /\ \A p \in Handlers, d \in Devices :
                Join(p, id, d) => C7_NotFound(id)
          /\ \A d \in Devices : StartPraying(id, d) => C7_NotFound(id)
          /\ \A d \in Devices : StopPraying(id, d) => C7_NotFound(id)
          /\ Pray(id) => C7_NotFound(id)
          /\ \A p \in Handlers, d \in Devices :
                Complete(p, id, d) => C7_NotFound(id)

C7_ExpiredRequestIsNotFound == [][C7_Step]_vars

\* C8: a complete call of a (device, request) pair whose link is already
\* completed answers 404, does not touch completed_at and is not followed by
\* a decrement of active_prayers.
C8_SecondCompleteIsNotFound ==
    [][\A p \in Handlers, id \in FrameIds, d \in Devices :
          (Complete(p, id, d) /\ CompletedDevicePrayers(d, id) # {}) =>
              /\ resp'.status = 404
              /\ UNCHANGED <<prayer_requests, device_prayers, inflight>>]_vars

\* C8 happens: the pair's link was completed and a further complete call was
\* answered 404.
C8_Witness ==
    /\ resp.op = "complete"
    /\ resp.status = 404
    /\ CompletedDevicePrayers(resp.device_id, resp.id) # {}

\* C9: a complete call of a (device, request) pair that has no link answers
\* 404 and leaves the counters and the links as they were.
C9_CompleteWithoutJoinIsNotFound ==
    [][\A p \in Handlers, id \in FrameIds, d \in Devices :
          (Complete(p, id, d) /\ SelectDevicePrayers(d, id) = {}) =>
              /\ resp'.status = 404
              /\ UNCHANGED <<prayer_requests, device_prayers, inflight>>]_vars

\* C9 happens: a device that never joined a stored request (which another
\* device has joined) called complete and was answered 404.
C9_Witness ==
    /\ resp.op = "complete"
    /\ resp.status = 404
    /\ resp.id \in DOMAIN prayer_requests
    /\ SelectDevicePrayers(resp.device_id, resp.id) = {}
    /\ CountDevicePrayers(resp.id) >= 1

\* C10: a successful complete of (device, request) sets that link's
\* completed_at to NOW() and nothing else in its first statement, and in its
\* second sets the request's active_prayers to max(active_prayers - 1, 0),
\* leaving prayer_count, the links and every other request as they were.
C10_MarkStep(p, id, d) ==
    (Complete(p, id, d) /\ inflight'[p] # Idle) =>
        /\ prayer_requests' = prayer_requests
        /\ BagCardinality(device_prayers') = BagCardinality(device_prayers)
        /\ \A row \in BagToSet(device_prayers) :
              IF row.device_id = d /\ row.prayer_request_id = id
              THEN /\ CopiesIn(row, device_prayers') = 0
                   /\ CopiesIn([row EXCEPT !.completed_at = now],
                               device_prayers') = 1
              ELSE CopiesIn(row, device_prayers') =
                       CopiesIn(row, device_prayers)

C10_DecrementStep(p) ==
    CompleteDecrement(p) =>
        /\ resp'.status = 200
        /\ device_prayers' = device_prayers
        /\ DOMAIN prayer_requests' = DOMAIN prayer_requests
        /\ \A r \in DOMAIN prayer_requests :
              IF r = inflight[p].id
              THEN /\ prayer_requests'[r].active_prayers =
                          (IF prayer_requests[r].active_prayers >= 1
                           THEN prayer_requests[r].active_prayers - 1 ELSE 0)
                   /\ prayer_requests'[r].prayer_count =
                          prayer_requests[r].prayer_count
                   /\ prayer_requests'[r].expires_at =
                          prayer_requests[r].expires_at
              ELSE prayer_requests'[r] = prayer_requests[r]

C10_CompleteFrame ==
    [][\A p \in Handlers :
          /\ \A id \in FrameIds, d \in Devices : C10_MarkStep(p, id, d)
          /\ C10_DecrementStep(p)]_vars

\* C10 happens: a complete succeeded and took one off a positive
\* active_prayers while a second request and a second link were stored.
C10_Witness ==
    /\ resp.op = "complete"
    /\ resp.status = 200
    /\ resp.did = {"complete", "decrement"}
    /\ Cardinality(DOMAIN prayer_requests) = 2
    /\ \E id \in DOMAIN prayer_requests :
          id # resp.id /\ prayer_requests[id].active_prayers >= 1
    /\ BagCardinality(device_prayers) >= 3

\* the device_prayers rows of (d, id) in the next state
SelectDevicePrayersNext(d, id) ==
    {row \in BagToSet(device_prayers') :
        row.device_id = d /\ row.prayer_request_id = id}

\* C11 as stated: whatever step is taken, a (device, request) pair that has
\* a link still has one, and a completed_at that is set stays as it is.
C11_LinkNeverLeaves ==
    [][\A d \in Devices, id \in FrameIds :
          /\ SelectDevicePrayers(d, id) # {} =>
                SelectDevicePrayersNext(d, id) # {}
          /\ \A row \in CompletedDevicePrayers(d, id) :
                row \in SelectDevicePrayersNext(d, id)]_vars

\* C11, for as long as the pair's prayer request is stored: whatever step is
\* taken (a re-join and a repeated complete included), a pair that has a
\* link still has one, and a completed_at that is set stays as it is.
C11_LinkStateMachine ==
    [][\A d \in Devices, id \in FrameIds :
          id \in DOMAIN prayer_requests' =>
              /\ SelectDevicePrayers(d, id) # {} =>
                    SelectDevicePrayersNext(d, id) # {}
              /\ \A row \in CompletedDevicePrayers(d, id) :
                    row \in SelectDevicePrayersNext(d, id)]_vars

\* C11 happens: a device whose link is completed joined again and was
\* answered from the already-joined branch, the link still completed.
C11_Witness ==
    /\ resp.op = "join"
    /\ resp.cause = "already_joined"
    /\ CompletedDevicePrayers(resp.device_id, resp.id) # {}

\* C12: in every reachable state, however concurrent joins interleave,
\* device_prayers holds at most one row per (device_id, prayer_request_id).
C12_OneLinkPerPair ==
    /\ \A row \in BagToSet(device_prayers) : CopiesIn(row, device_prayers) = 1
    /\ \A d \in Devices, id \in FrameIds :
          Cardinality(SelectDevicePrayers(d, id)) <= 1

\* C12 happens: of two concurrent joins of one pair, both past the lookup,
\* the second INSERT was rejected; the pair has its one row, and the other
\* device has joined too.
C12_Witness ==
    /\ resp.op = "join"
    /\ resp.cause = "unique_violation"
    /\ Cardinality(SelectDevicePrayers(resp.device_id, resp.id)) = 1
    /\ BagCardinality(device_prayers) = 2

\* no row of prayer_requests has this id
Missing(id) == id \notin DOMAIN prayer_requests

\* C13: a join whose request id is that of no stored prayer request, or of
\* an expired one, answers 404, inserts no link, changes no counter and
\* runs no further statement.
C13_JoinUnknownRequestIsNotFound ==
    [][\A p \in Handlers, id \in FrameIds, d \in Devices :
          (Join(p, id, d) /\ (Missing(id) \/ Expired(id))) =>
              /\ resp'.status = 404
              /\ UNCHANGED <<prayer_requests, device_prayers, inflight>>]_vars

\* C13 happens: a join of an expired request that is still stored, with a
\* link of another device, was answered 404.
C13_Witness ==
    /\ resp.op = "join"
    /\ resp.status = 404
    /\ Expired(resp.id)
    /\ SelectDevicePrayers(resp.device_id, resp.id) = {}
    /\ CountDevicePrayers(resp.id) >= 1

\* the step changes the row of request id to newRow and nothing else in the
\* store: no other request, no link, no suspended handler
OnlyRowChanges(id, newRow) ==
    /\ prayer_requests' = [prayer_requests EXCEPT ![id] = newRow]
    /\ UNCHANGED <<device_prayers, inflight, next_request_id>>

\* the step answers 404 and changes nothing in the store
NotFoundNoChange ==
    /\ resp'.status = 404
    /\ UNCHANGED <<prayer_requests, device_prayers, inflight, next_request_id>>

\* C14: start-praying on a stored, unexpired request answers 200 and adds
\* exactly 1 to its active_prayers, leaving prayer_count, the links and all
\* else unchanged, whether or not the calling device has joined; on a
\* missing or expired request it answers 404 and changes nothing.
C14_StartPrayingFrame ==
    [][\A id \in FrameIds, d \in Devices :
          StartPraying(id, d) =>
              IF Missing(id) \/ Expired(id)
              THEN NotFoundNoChange
              ELSE /\ resp'.status = 200
                   /\ OnlyRowChanges(id,
                          [prayer_requests[id] EXCEPT
                              !.active_prayers =
                                  prayer_requests[id].active_prayers + 1])]_vars

\* C14 happens: start-praying was answered 200 on a request that device A
\* has joined and device B has not (either may have been the caller), and
\* active_prayers is ahead of prayer_count.
C14_Witness ==
    /\ resp.op = "start-praying"
    /\ resp.status = 200
    /\ SelectDevicePrayers("A", resp.id) # {}
    /\ SelectDevicePrayers("B", resp.id) = {}
    /\ prayer_requests[resp.id].prayer_count = 1
    /\ prayer_requests[resp.id].active_prayers = 2

\* C15: stop-praying on a stored, unexpired request answers 200 and sets
\* its active_prayers to max(active_prayers - 1, 0), changing nothing else;
\* on a missing or expired request it answers 404 and changes nothing.
C15_StopPrayingFrame ==
    [][\A id \in FrameIds, d \in Devices :
          StopPraying(id, d) =>
              IF Missing(id) \/ Expired(id)
              THEN NotFoundNoChange
              ELSE /\ resp'.status = 200
                   /\ OnlyRowChanges(id,
                          [prayer_requests[id] EXCEPT
                              !.active_prayers =
                                  IF prayer_requests[id].active_prayers >= 1
                                  THEN prayer_requests[id].active_prayers - 1
                                  ELSE 0])]_vars

\* C15 happens: stop-praying took active_prayers from 2 to 1 on a request
\* with a link.
C15_Witness ==
    /\ resp.op = "stop-praying"
    /\ resp.status = 200
    /\ resp.did = {"decrement"}
    /\ prayer_requests[resp.id].active_prayers = 1
    /\ CountDevicePrayers(resp.id) >= 1

\* C16: every legacy pray call on a stored, unexpired request answers 200
\* and adds exactly 1 to prayer_count and to active_prayers, whatever was
\* called before (no deduplication), and creates no link; on a missing or
\* expired request it answers 404 and changes nothing.
C16_LegacyPray ==
    [][\A id \in FrameIds :
          Pray(id) =>
              IF Missing(id) \/ Expired(id)
              THEN NotFoundNoChange
              ELSE /\ resp'.status = 200
                   /\ OnlyRowChanges(id,
                          [prayer_requests[id] EXCEPT
                              !.prayer_count =
                                  prayer_requests[id].prayer_count + 1,
                              !.active_prayers =
                                  prayer_requests[id].active_prayers + 1])]_vars

\* C16 happens: two legacy pray calls on a fresh request raised both
\* counters to 2, and there is no link.
C16_Witness ==
    /\ resp.op = "pray"
    /\ resp.status = 200
    /\ prayer_requests[resp.id].prayer_count = 2
    /\ prayer_requests[resp.id].active_prayers = 2
    /\ device_prayers = EmptyBag

\* C17: in the session create, join(A), join(A), start-praying(A),
\* complete(A), every call succeeds, and the request's counters are, in
\* order: prayer_count = 1 and active_prayers = 0 after the first join;
\* prayer_count = 1 still after the second; active_prayers = 1 after
\* start-praying; active_prayers = 0, prayer_count = 1 and A's link
\* completed after complete.
C17_Scenario ==
    /\ resp.op # "none" => resp.status \in {200, 201}
    /\ resp.cause = "joined" =>
          /\ prayer_requests[resp.id].prayer_count = 1
          /\ prayer_requests[resp.id].active_prayers = 0
          /\ resp.body = prayer_requests[resp.id]
    /\ resp.cause = "already_joined" =>
          /\ prayer_requests[resp.id].prayer_count = 1
          /\ prayer_requests[resp.id].active_prayers = 0
          /\ resp.body = prayer_requests[resp.id]
    /\ resp.op = "start-praying" =>
          /\ prayer_requests[resp.id].prayer_count = 1
          /\ prayer_requests[resp.id].active_prayers = 1
    /\ resp.op = "complete" =>
          /\ prayer_requests[resp.id].prayer_count = 1
          /\ prayer_requests[resp.id].active_prayers = 0
          /\ CompletedDevicePrayers(resp.device_id, resp.id) # {}
          /\ OpenDevicePrayers(resp.device_id, resp.id) = {}

\* C17 happens: the session ran to its end, the complete answered 200.
C17_Witness ==
    /\ resp.op = "complete"
    /\ resp.status = 200
    /\ resp.did = {"complete", "decrement"}
    /\ BagCardinality(device_prayers) = 1
    /\ prayer_requests[resp.id].prayer_count = 1

\* <<prayer_count, active_prayers>> of request id, now and after the step
Counters(id) ==
    <<prayer_requests[id].prayer_count, prayer_requests[id].active_prayers>>

CountersNext(id) ==
    <<prayer_requests'[id].prayer_count, prayer_requests'[id].active_prayers>>

\* C18: no counter update is lost.  Whatever handlers are in flight and
\* whatever ran since a call arrived, the one counter statement of a
\* start-praying, stop-praying, legacy pray or first-time join on an
\* unexpired request applies the call's sequential effect to the values
\* stored at that moment, and no other statement of a join changes a
\* counter; so the final counters are those of the calls run one after the
\* other in the order of their counter statements.
C18_Step ==
    /\ \A id \in RequestIds, d \in Devices :
          (StartPraying(id, d) /\ ActiveRequest(id)) =>
              CountersNext(id) = <<Counters(id)[1], Counters(id)[2] + 1>>
    /\ \A id \in RequestIds, d \in Devices :
          (StopPraying(id, d) /\ ActiveRequest(id)) =>
              CountersNext(id) =
                  <<Counters(id)[1],
                    IF Counters(id)[2] >= 1 THEN Counters(id)[2] - 1 ELSE 0>>
    /\ \A id \in RequestIds :
          (Pray(id) /\ ActiveRequest(id)) =>
              CountersNext(id) = <<Counters(id)[1] + 1, Counters(id)[2] + 1>>
    /\ \A p \in Handlers :
          (JoinUpdate(p) /\ ActiveRequest(inflight[p].id)) =>
              CountersNext(inflight[p].id) =
                  <<Counters(inflight[p].id)[1] + 1,
                    Counters(inflight[p].id)[2]>>
    /\ \A p \in Handlers :
          (JoinLookup(p) \/ JoinInsert(p) \/ JoinSelect(p)) =>
              UNCHANGED prayer_requests
    /\ \A p \in Handlers, id \in RequestIds, d \in Devices :
          Join(p, id, d) => UNCHANGED prayer_requests

C18_NoLostUpdates == [][C18_Step]_vars

\* C18 happens: the joins of two devices interleave, both INSERTs before
\* either UPDATE, with a start-praying in between; the first UPDATE has
\* answered with prayer_count = 1 and the other join is about to run its own.
C18_Witness ==
    /\ resp.op = "join"
    /\ resp.did = {"insert", "increment"}
    /\ resp.body.prayer_count = 1
    /\ resp.body.active_prayers = 1
    /\ \E p \in Handlers :
          /\ inflight[p].op = "join"
          /\ inflight[p].pc = "update"
          /\ inflight[p].id = resp.id
          /\ inflight[p].device_id # resp.device_id

\* sum of prayer_count over the requests ids, each counted once
RECURSIVE TotalPrayerCount(_)
TotalPrayerCount(ids) ==
    IF ids = {} THEN 0
    ELSE LET id == CHOOSE i \in ids : TRUE
         IN  prayer_requests[id].prayer_count + TotalPrayerCount(ids \ {id})

\* sum of active_prayers over the requests ids, each counted once
RECURSIVE TotalActivePrayers(_)
TotalActivePrayers(ids) ==
    IF ids = {} THEN 0
    ELSE LET id == CHOOSE i \in ids : TRUE
         IN  prayer_requests[id].active_prayers
             + TotalActivePrayers(ids \ {id})

\* the unexpired requests, stated without the code's predicate
Unexpired == {id \in DOMAIN prayer_requests : ~Expired(id)}

\* C19: the statistics report is, over the unexpired requests, the sum of
\* prayer_count and the sum of active_prayers with each request counted
\* once, and the number of their links with completed_at set.
C19_StatsCountEachRequestOnce ==
    [][GetStats =>
          /\ resp'.status = 200
          /\ resp'.body.total_prayers = TotalPrayerCount(Unexpired)
          /\ resp'.body.active_prayers = TotalActivePrayers(Unexpired)
          /\ resp'.body.completed_prayers =
                 Cardinality({row \in BagToSet(device_prayers) :
                                 /\ row.prayer_request_id \in Unexpired
                                 /\ row.completed_at # NULL})]_vars

\* C20: when its query fails, the statistics operation answers with a
\* success status and the zero-valued report.
C20_StatsFailureIsZeroReport ==
    (resp.op = "stats" /\ resp.cause = "storage_failure") =>
        /\ resp.status = 200
        /\ resp.body = StatsRow(0, 0, 0)

\* the requests the store holds after the step with expires_at <= NOW()
ExpiredNext ==
    {id \in DOMAIN prayer_requests' : prayer_requests'[id].expires_at <= now'}

\* C21: the cleanup sweep deletes exactly the requests with expires_at <=
\* NOW() and all their links, leaves every other request (counters
\* included) and every other link as it was, and leaves nothing for a second
\* sweep at the same instant to delete.
C21_CleanupSweep ==
    [][CleanupExpired =>
          /\ DOMAIN prayer_requests' =
                 {id \in DOMAIN prayer_requests : ~Expired(id)}
          /\ \A id \in DOMAIN prayer_requests' :
                 prayer_requests'[id] = prayer_requests[id]
          /\ BagToSet(device_prayers') \subseteq BagToSet(device_prayers)
          /\ \A row \in BagToSet(device_prayers) :
                 CopiesIn(row, device_prayers') =
                     IF Expired(row.prayer_request_id) THEN 0
                     ELSE CopiesIn(row, device_prayers)
          /\ ExpiredNext = {}
          /\ resp'.status = 200
          /\ resp'.id = Cardinality({id \in DOMAIN prayer_requests :
                                        Expired(id)})]_vars

\* C21 happens: a sweep deleted request 1, which had been joined, and kept
\* the unexpired request 2 with its link and its counters.
C21_Witness ==
    /\ resp.op = "cleanup"
    /\ resp.id = 1
    /\ DOMAIN prayer_requests = {2}
    /\ \E d \in Devices : joinIncs[d][1] = 1
    /\ CountDevicePrayers(1) = 0
    /\ CountDevicePrayers(2) >= 1
    /\ prayer_requests[2].prayer_count >= 1
    /\ prayer_requests[2].active_prayers >= 1

\* C22: no read returns an expired request: the active list, a device's
\* prayers and a device's recent activity hold only requests with
\* expires_at > NOW(), and the statistics report is all zeros when no stored
\* request is unexpired.
C22_Step ==
    /\ GetPrayerRequests => \A row \in resp'.rows : ~Expired(row.id)
    /\ \A d \in Devices :
          GetDevicePrayers(d) => \A row \in resp'.rows : ~Expired(row.id)
    /\ (GetStats /\ Unexpired = {}) => resp'.body = StatsRow(0, 0, 0)
    /\ \A d \in Devices :
          GetDeviceInfo(d) => \A row \in resp'.rows : ~Expired(row.id)

C22_ReadsFilterExpired == [][C22_Step]_vars

\* the main categories in ascending order of id
RECURSIVE MainsById(_)
MainsById(mains) ==
    IF mains = {} THEN << >>
    ELSE LET first == CHOOSE t \in mains : \A u \in mains : t.id <= u.id
         IN  <<first>> \o MainsById(mains \ {first})

\* group is the group of main category main: its id and title, and as
\* subcategories exactly the topics whose parent it is, each once
GroupOf(group, main) ==
    /\ group.id = main.id
    /\ group.title = main.title
    /\ {group.subcategories[i] : i \in DOMAIN group.subcategories} =
           {[id |-> t.id, title |-> t.title] :
               t \in {u \in prayer_topics : u.parent_id = main.id}}
    /\ Len(group.subcategories) =
           Cardinality({u \in prayer_topics : u.parent_id = main.id})

\* C23: the topic catalog has exactly one group per main category, in
\* ascending order of the main category's id, each group holding exactly
\* the subcategories of its own main category.
C23_TopicCatalog ==
    [][GetPrayerTopics =>
          LET mains == MainsById(MainTopics)
          IN  /\ Len(resp'.body) = Len(mains)
              /\ \A i \in 1 .. Len(mains) :
                     GroupOf(resp'.body[i], mains[i])]_vars


\* the hours at which the request stored under id is active
ActiveHours(id) ==
    {t \in 0 .. (MaxTicks + 1) * TickStep + TTL :
         prayer_requests'[id].expires_at > t}

\* one create call: what it stores and what it answers
C24_Step(topic_id, d) ==
    SubmitPrayerRequest(topic_id, d) =>
        IF \E t \in prayer_topics : t.id = topic_id
        THEN LET id == resp'.id
             IN  /\ resp'.status = 201
                 /\ id \notin DOMAIN prayer_requests
                 /\ id >= next_request_id
                 /\ next_request_id' > id
                 /\ CountDevicePrayers(id) = 0
                 /\ DOMAIN prayer_requests' = DOMAIN prayer_requests \cup {id}
                 /\ \A i \in DOMAIN prayer_requests :
                        prayer_requests'[i] = prayer_requests[i]
                 /\ prayer_requests'[id].prayer_count = 0
                 /\ prayer_requests'[id].active_prayers = 0
                 /\ prayer_requests'[id].topic_id = topic_id
                 /\ prayer_requests'[id].created_at = now
                 /\ prayer_requests'[id].expires_at = now + 24
                 /\ ActiveHours(id) =
                        {t \in 0 .. (MaxTicks + 1) * TickStep + TTL :
                             t < now + 24}
                 /\ resp'.body = prayer_requests'[id]
                 /\ device_prayers' = device_prayers
        ELSE /\ resp'.status >= 400
             /\ UNCHANGED <<prayer_requests, next_request_id, device_prayers>>

\* C24: a successful create stores a new request under an id that no
\* request or link has or ever had, with prayer_count = 0, active_prayers = 0,
\* no links and expires_at = created_at + 24 hours, so that it is active from
\* its creation until exactly 24 hours have passed; a create whose topic_id
\* is no row of prayer_topics stores nothing.  Ids are handed out in
\* increasing order and every id in use is below the next one.
C24_CreateIsFresh ==
    [][/\ next_request_id' >= next_request_id
       /\ \A id \in DOMAIN prayer_requests' : id < next_request_id'
       /\ \A row \in BagToSet(device_prayers') :
              row.prayer_request_id < next_request_id'
       /\ resp'.op = "submit" =>
              \A topic_id \in TopicIds \cup {BadTopic}, d \in Devices :
                  C24_Step(topic_id, d)]_vars

\* C24 happens: request 1 expired and was swept away with its link, and the
\* next create was answered with the new id 2.
C24_Witness ==
    /\ resp.op = "submit"
    /\ resp.status = 201
    /\ resp.id = 2
    /\ DOMAIN prayer_requests = {2}
    /\ prayer_requests[2].created_at = TTL
    /\ \E d \in Devices : joinIncs[d][1] = 1


\* the store: every request with its counters, every link, and the handlers
Stored == <<prayer_requests, next_request_id, device_prayers, inflight>>

\* C25: a join or a complete whose body has no device_id (or an empty one)
\* and a create whose body has no topic_id are answered 400, and the step
\* leaves every request, every counter and every link as it was.
C25_ValidationErrors ==
    [][/\ \A p \in Handlers, id \in RequestIds :
              Join(p, id, NoDevice) \/ Complete(p, id, NoDevice) =>
                  /\ resp'.status = 400
                  /\ resp'.id = id
                  /\ UNCHANGED Stored
       /\ \A d \in Devices :
              SubmitPrayerRequest(NoTopic, d) =>
                  /\ resp'.status = 400
                  /\ UNCHANGED Stored]_vars

\* C25 happens: a complete without device_id was answered 400 while a
\* device had an open link to the request and was counted as praying.
C25_Witness ==
    /\ resp.op = "complete"
    /\ resp.device_id = NoDevice
    /\ resp.status = 400
    /\ resp.id \in DOMAIN prayer_requests
    /\ prayer_requests[resp.id].active_prayers >= 1
    /\ \E d \in Devices : OpenDevicePrayers(d, resp.id) # {}


\* C26: whenever no handler is between two statements, active_prayers of
\* every request is the number of devices actively praying on it: those
\* whose latest start-praying on the request was not followed by their
\* stop-praying or complete.
C26_ActivePrayersCountsHolds ==
    (\A p \in Handlers : inflight[p] = Idle) =>
        \A id \in DOMAIN prayer_requests :
            prayer_requests[id].active_prayers = Cardinality(praying.by[id])


\* C27: prayer_count never decreases: in every step, whatever the operation
\* (join, start-praying, stop-praying, complete, legacy pray, reset), every
\* request stored before and after the step has a prayer_count at least as
\* large as before.
C27_PrayerCountMonotonic ==
    [][\A id \in DOMAIN prayer_requests \cap DOMAIN prayer_requests' :
           prayer_requests'[id].prayer_count >=
               prayer_requests[id].prayer_count]_vars

\* C27 happens: reset-active-prayers answered for a request that devices
\* had joined and the legacy pray had counted, and its prayer_count stands.
C27_Witness ==
    /\ resp.op = "reset"
    /\ resp.id = 1
    /\ 1 \in DOMAIN prayer_requests
    /\ prayer_requests[1].active_prayers = 0
    /\ prayer_requests[1].prayer_count = MaxCount
    /\ \E d \in Devices : joinIncs[d][1] = 1


\* C28: when send-prayer-joined is called for a request whose creator
\* device has no push token (none registered, NULL or empty), or whose
\* creator is the joiner, the step calls sendPushNotification for no device
\* and answers 200 with success true.
C28_JoinedNotificationSuppressed ==
    [][\A id \in RequestIds, joiner \in Devices \cup {NoDevice},
          fcm \in Delivery :
          /\ SendPrayerJoined(id, joiner, fcm)
          /\ id \in DOMAIN prayer_requests
          /\ prayer_requests[id].device_id \in Devices
          /\ \/ prayer_requests[id].device_id = joiner
             \/ \A d \in DOMAIN devices :
                    d = prayer_requests[id].device_id =>
                        devices[d].push_token \in {NullText, ""}
          => /\ sent' = {}
             /\ resp'.status = 200
             /\ resp'.body.success = TRUE]_vars

\* C28 happens: the creator of request 1 has a push token and pushes are
\* enabled, the creator itself is the joiner, and nothing was sent.
C28_Witness ==
    /\ resp.op = "send-prayer-joined"
    /\ resp.id = 1
    /\ 1 \in DOMAIN prayer_requests
    /\ prayer_requests[1].device_id = resp.device_id
    /\ resp.device_id \in DOMAIN devices
    /\ devices[resp.device_id].push_token = DeviceToken(resp.device_id)
    /\ firebaseAdmin
    /\ resp.status = 200
    /\ sent = {}

\* C29: sendPushNotification never throws: every call ends with a boolean,
\* false without a delivery attempt when firebaseAdmin was not initialised,
\* false when messaging().send rejects, and true only when it delivered.
C29_SendPushNotificationNeverRaises ==
    \A call \in sent :
        /\ ~call.raised
        /\ call.returned \in BOOLEAN
        /\ ~firebaseAdmin => ~call.attempted /\ ~call.returned
        /\ call.attempted /\ call.fcm = "rejected" => ~call.returned
        /\ call.returned => call.attempted /\ call.fcm = "delivered"

\* C29 happens: in one fan-out a delivery was rejected and another one
\* succeeded.
C29_Witness ==
    /\ \E call \in sent : call.attempted /\ call.fcm = "rejected"
    /\ \E call \in sent : call.attempted /\ call.fcm = "delivered"

\* the devices a fan-out for requester targets: those with a push_token,
\* but for the requester's own
Targeted(requester) ==
    {d \in DOMAIN devices : devices[d].push_token # NullText} \ {requester}

\* C30: whatever deliveries fail, a fan-out (send-prayer-request with
\* its required fields, or send-daily-reminder) calls sendPushNotification
\* once for every targeted device, answers 200 with success true, and reports
\* devices_notified = the number of targeted devices and
\* successful_notifications = the number of calls that returned true.
C30_FanOutJoinsAll ==
    [][\A requester \in Devices \cup {NoDevice}, fcm \in [Devices -> Delivery] :
          \/ SendPrayerRequest(TRUE, requester, fcm)
          \/ requester = NoDevice /\ SendDailyReminder(fcm)
          => /\ {call.device_id : call \in sent'} = Targeted(requester)
             /\ Cardinality(sent') = Cardinality(Targeted(requester))
             /\ resp'.status = 200
             /\ resp'.body.success = TRUE
             /\ resp'.body.devices_notified =
                    Cardinality(Targeted(requester))
             /\ resp'.body.successful_notifications =
                    Cardinality({d \in Targeted(requester) :
                                    firebaseAdmin /\ fcm[d] = "delivered"})
             /\ resp'.body.successful_notifications =
                    Cardinality({call \in sent' : call.returned = TRUE})
     ]_vars

\* C30 happens: two devices were targeted, one delivery was rejected, and
\* the fan-out answered 200 with 2 devices notified and 1 successful.
C30_Witness ==
    /\ resp.op \in {"send-prayer-request", "send-daily-reminder"}
    /\ resp.status = 200
    /\ resp.body.devices_notified = 2
    /\ resp.body.successful_notifications = 1
    /\ \E call \in sent : call.attempted /\ ~call.returned


\* a join of request id is between two of its statements
JoinInFlight(id) ==
    \E p \in Handlers : inflight[p].op = "join" /\ inflight[p].id = id

\* C31: with the legacy pray never called and no statement rejected by the
\* store, in every state in which no join of a request is in flight the
\* request's prayer_count equals the number of its links, however concurrent
\* joins, completes, start/stop-praying and cleanup sweeps interleave.
C31_CountEqualsLinksWhenQuiescent ==
    \A id \in DOMAIN prayer_requests :
        ~JoinInFlight(id) =>
            prayer_requests[id].prayer_count = CountDevicePrayers(id)

\* C31 happens: two joins of one device ran concurrently, the second INSERT
\* was rejected as a duplicate, and with both handlers finished the request
\* has one link and prayer_count = 1.
C31_Witness ==
    /\ resp.op = "join"
    /\ resp.cause = "unique_violation"
    /\ \A p \in Handlers : inflight[p] = Idle
    /\ resp.id \in DOMAIN prayer_requests
    /\ prayer_requests[resp.id].prayer_count = 1
    /\ CountDevicePrayers(resp.id) = 1


\* C32: in every reachable state every link references a stored prayer
\* request, also when the statements of a join interleave with a cleanup
\* sweep that deletes the request.
C32_ReferentialIntegrity ==
    \A row \in BagToSet(device_prayers) :
        row.prayer_request_id \in DOMAIN prayer_requests

\* C32 happens: a join found its request unexpired, the sweep deleted the
\* request before the join's INSERT, and the INSERT was rejected: there is
\* no link for the deleted request.
C32_Witness ==
    /\ resp.op = "join"
    /\ resp.cause = "fk_violation"
    /\ resp.id \notin DOMAIN prayer_requests
    /\ CountDevicePrayers(resp.id) = 0


\* the handlers whose complete of (d, id) set completed_at and has not yet
\* run its decrement
Completing(d, id) ==
    {p \in Handlers : inflight[p] = Suspended("complete", "decrement", id, d)}

\* a complete call of (d, id) whose first statement runs while another
\* complete of the pair is between its two statements
C33_Loser(id, d) ==
    \A q \in Handlers :
        Completing(d, id) # {} /\ Complete(q, id, d) =>
            /\ resp'.status = 404
            /\ UNCHANGED <<prayer_requests, device_prayers, inflight>>

\* the call that set completed_at: it is alone, and its second statement
\* takes one off active_prayers, floored at 0, and answers 200
C33_Winner(id, d) ==
    /\ Cardinality(Completing(d, id)) <= 1
    /\ \A p \in Completing(d, id) :
           CompleteDecrement(p) =>
               /\ resp'.status = 200
               /\ inflight'[p] = Idle
               /\ device_prayers' = device_prayers
               /\ DOMAIN prayer_requests' = DOMAIN prayer_requests
               /\ \A i \in DOMAIN prayer_requests :
                      prayer_requests'[i] =
                          IF i # id THEN prayer_requests[i]
                          ELSE [prayer_requests[i] EXCEPT !.active_prayers =
                                   IF @ >= 1 THEN @ - 1 ELSE 0]

\* C33: of two concurrent complete calls for one joined, not yet completed
\* (device, request) pair, the one whose UPDATE of the link runs first
\* succeeds and the other is answered 404 and changes nothing, so that
\* active_prayers is decremented (floored at 0) once for the two.
C33_ConcurrentCompletes ==
    [][\A id \in RequestIds, d \in Devices :
           C33_Loser(id, d) /\ C33_Winner(id, d)]_vars

\* C33 happens: a complete was answered 404 while the other complete of the
\* same pair, which set completed_at, has its decrement still to run on a
\* request with active_prayers >= 1.
C33_Witness ==
    /\ resp.op = "complete"
    /\ resp.status = 404
    /\ resp.id \in DOMAIN prayer_requests
    /\ prayer_requests[resp.id].active_prayers >= 1
    /\ Completing(resp.device_id, resp.id) # {}


\* C34: the legacy DELETE complete on a stored, unexpired request answers
\* 200 and sets its active_prayers to max(active_prayers - 1, 0), leaving
\* prayer_count and every link (completed_at included) as they were; on a
\* missing or expired request it answers 404 and changes nothing.
C34_DeleteCompleteFrame ==
    [][\A id \in RequestIds :
          DeleteComplete(id) =>
              IF Missing(id) \/ Expired(id)
              THEN NotFoundNoChange
              ELSE /\ resp'.status = 200
                   /\ prayer_requests'[id].prayer_count =
                          prayer_requests[id].prayer_count
                   /\ OnlyRowChanges(id,
                          [prayer_requests[id] EXCEPT
                              !.active_prayers =
                                  IF prayer_requests[id].active_prayers >= 1
                                  THEN prayer_requests[id].active_prayers - 1
                                  ELSE 0])]_vars

\* C34 happens: the legacy DELETE complete took active_prayers from 1 to 0
\* on a request that a device has joined and not completed, and the link is
\* still open.
C34_Witness ==
    /\ resp.op = "delete-complete"
    /\ resp.status = 200
    /\ resp.did = {"decrement"}
    /\ prayer_requests[resp.id].active_prayers = 0
    /\ prayer_requests[resp.id].prayer_count >= 1
    /\ \E d \in Devices : OpenDevicePrayers(d, resp.id) # {}

==========================================================================
